---- MODULE Spec2Model ----
\* Model of examples/test-policy.py: the agentsh policy test harness for
\* Sprites.  Text is modelled as a sequence of one-character strings so that
\* lowercasing, concatenation, substring search and line parsing are computed
\* the way the Python code computes them.
EXTENDS Integers, Sequences, FiniteSets, TLC

VARIABLES pc, tester, executed, exitCode, summary, live, call, sandbox, run, first

vars == <<pc, tester, executed, exitCode, summary, live, call, sandbox, run, first>>

\* ------------------------------------------------------------------ text
UpperChars == <<"A","B","C","D","E","F","G","H","I","J","K","L","M","N","O","P","Q","R","S","T","U","V","W","X","Y","Z">>

LowerChars == <<"a","b","c","d","e","f","g","h","i","j","k","l","m","n","o","p","q","r","s","t","u","v","w","x","y","z">>

Whitespace == {" ", "\t", "\n", "\r"}

LineBreaks == {"\n", "\r"}

lower_char(c) ==
    IF \E i \in DOMAIN UpperChars : UpperChars[i] = c
    THEN LowerChars[CHOOSE i \in DOMAIN UpperChars : UpperChars[i] = c]
    ELSE c

\* str.lower()
lower(s) == [i \in DOMAIN s |-> lower_char(s[i])]

\* the Python operator `sub in s`
contains(s, sub) ==
    \E i \in 0..(Len(s) - Len(sub)) : SubSeq(s, i + 1, i + Len(sub)) = sub

\* str.startswith
startswith(s, prefix) ==
    Len(s) >= Len(prefix) /\ SubSeq(s, 1, Len(prefix)) = prefix

\* str.strip()
strip(s) ==
    LET keep == {i \in DOMAIN s : s[i] \notin Whitespace}
    IN  IF keep = {} THEN <<>>
        ELSE SubSeq(s, CHOOSE i \in keep : \A j \in keep : i <= j,
                       CHOOSE i \in keep : \A j \in keep : j <= i)

RECURSIVE splitlines(_)
\* str.splitlines(): lines without their terminators, no trailing empty line
splitlines(s) ==
    IF s = <<>> THEN <<>>
    ELSE LET brk == {i \in DOMAIN s : s[i] \in LineBreaks}
             k   == IF brk = {} THEN Len(s) + 1
                    ELSE CHOOSE i \in brk : \A j \in brk : i <= j
             \* "\r\n" is one terminator
             skip == IF k < Len(s) /\ s[k] = "\r" /\ s[k + 1] = "\n" THEN k + 1 ELSE k
         IN  <<SubSeq(s, 1, k - 1)>> \o splitlines(SubSeq(s, skip + 1, Len(s)))

\* str.split(None, 1): at most two fields separated by the first whitespace run
split_none_1(s) ==
    LET body == {i \in DOMAIN s : s[i] \notin Whitespace}
    IN  IF body = {} THEN <<>>
        ELSE LET b    == CHOOSE i \in body : \A j \in body : i <= j
                 gaps == {i \in b..Len(s) : s[i] \in Whitespace}
                 e    == IF gaps = {} THEN Len(s) + 1
                         ELSE CHOOSE i \in gaps : \A j \in gaps : i <= j
                 more == {i \in body : i > e}
             IN  IF more = {} THEN <<SubSeq(s, b, e - 1)>>
                 ELSE <<SubSeq(s, b, e - 1),
                        SubSeq(s, CHOOSE i \in more : \A j \in more : i <= j, Len(s))>>

\* ------------------------------------------------------------ text data
kw_denied == <<"d","e","n","i","e","d">>
kw_blocked == <<"b","l","o","c","k","e","d">>
kw_not_found == <<"n","o","t"," ","f","o","u","n","d">>
kw_no_such_file == <<"n","o"," ","s","u","c","h"," ","f","i","l","e">>
marker == <<"D","e","c","i","s","i","o","n",":">>
txt_timeout == <<"t","i","m","e","o","u","t">>
word_allow == <<"a","l","l","o","w">>
word_deny == <<"d","e","n","y">>
out_hello == <<"h","e","l","l","o">>
out_ied == <<"i","e","d">>
out_den == <<"d","e","n">>
out_blocked == <<"R","e","q","u","e","s","t"," ","B","L","O","C","K","E","D">>
err_denied == <<"E","r","r","o","r",":"," ","o","p","e","r","a","t","i","o","n"," ","d","e","n","i","e","d"," ","b","y"," ","p","o","l","i","c","y">>
err_not_found == <<"b","a","s","h",":"," ","s","s","h",":"," ","c","o","m","m","a","n","d"," ","n","o","t"," ","f","o","u","n","d">>
err_no_such_file == <<"r","m",":"," ","N","o"," ","s","u","c","h"," ","f","i","l","e"," ","o","r"," ","d","i","r","e","c","t","o","r","y">>
err_disk_full == <<"d","i","s","k"," ","f","u","l","l">>
err_den == <<"d","e","n">>
err_ied == <<"i","e","d">>
err_denied_missing == <<"P","e","r","m","i","s","s","i","o","n"," ","D","e","n","i","e","d",":"," ","n","o","t"," ","f","o","u","n","d">>
exc_enoent == <<"[","E","r","r","n","o"," ","2","]"," ","N","o"," ","s","u","c","h"," ","f","i","l","e"," ","o","r"," ","d","i","r","e","c","t","o","r","y",":"," ","'","a","g","e","n","t","s","h","'">>
exc_eacces == <<"[","E","r","r","n","o"," ","1","3","]"," ","P","e","r","m","i","s","s","i","o","n"," ","d","e","n","i","e","d",":"," ","'","a","g","e","n","t","s","h","'">>
exc_enomem == <<"[","E","r","r","n","o"," ","1","2","]"," ","C","a","n","n","o","t"," ","a","l","l","o","c","a","t","e"," ","m","e","m","o","r","y">>
dec_deny == <<"D","e","c","i","s","i","o","n",":"," ","d","e","n","y">>
dec_allow_upper == <<"R","u","l","e",":"," ","t","m","p","\n","D","e","c","i","s","i","o","n",":","\t"," ","A","L","L","O","W"," ","\n","D","e","c","i","s","i","o","n",":"," ","d","e","n","y">>
dec_two == <<"D","e","c","i","s","i","o","n",":"," ","a","l","l","o","w","\n","D","e","c","i","s","i","o","n",":"," ","d","e","n","y">>
dec_bare == <<"D","e","c","i","s","i","o","n",":">>
dec_bare_ws == <<"D","e","c","i","s","i","o","n",":"," "," ","\n","D","e","c","i","s","i","o","n",":"," ","d","e","n","y">>
dec_nospace == <<"D","e","c","i","s","i","o","n",":","a","l","l","o","w">>
dec_glued == <<"D","e","c","i","s","i","o","n",":","x"," ","a","l","l","o","w">>
dec_lower_marker == <<"d","e","c","i","s","i","o","n",":"," ","a","l","l","o","w">>
dec_indented == <<" ","D","e","c","i","s","i","o","n",":"," ","d","e","n","y">>
dec_none == <<"n","o"," ","r","u","l","e"," ","m","a","t","c","h","e","d","\n">>
dec_extra == <<"D","e","c","i","s","i","o","n",":"," ","d","e","n","y"," ","(","r","u","l","e"," ","3",")">>

\* ------------------------------------------- outcomes of subprocess.run
\* A call of subprocess.run either completes with (returncode, stdout,
\* stderr), raises TimeoutExpired, raises FileNotFoundError, or raises
\* another exception whose text is err.
Completed(code, out, err) == [tag |-> "exit", code |-> code, out |-> out, err |-> err]

TimeoutExpired == [tag |-> "timeout", code |-> 0, out |-> <<>>, err |-> <<>>]

FileNotFoundError == [tag |-> "notfound", code |-> 0, out |-> <<>>, err |-> exc_enoent]

OtherError(msg) == [tag |-> "error", code |-> 0, out |-> <<>>, err |-> msg]

\* -------------------------------------------------------- PolicyTester
\* faulty variant: the counters are not reset
PolicyTester_init_kept(self) == self

PolicyTester_init(self) == [passed |-> 0, failed |-> 0, warnings |-> 0]

\* the three print-and-count endings of a probe method
Passed(self, note) ==
    [self |-> [self EXCEPT !.passed = @ + 1], status |-> "Pass", note |-> note]

Failed(self, note) ==
    [self |-> [self EXCEPT !.failed = @ + 1], status |-> "Fail", note |-> note]

Warned(self, note) ==
    [self |-> [self EXCEPT !.warnings = @ + 1], status |-> "Warn", note |-> note]

\* faulty variant: a timeout reported with exit code 0
run_command_zero(raw) ==
    CASE raw.tag = "exit"    -> [code |-> raw.code, out |-> raw.out, err |-> raw.err]
      [] raw.tag = "timeout" -> [code |-> 0, out |-> <<>>, err |-> txt_timeout]
      [] OTHER               -> [code |-> -1, out |-> <<>>, err |-> raw.err]

run_command(raw) ==
    CASE raw.tag = "exit"    -> [code |-> raw.code, out |-> raw.out, err |-> raw.err]
      [] raw.tag = "timeout" -> [code |-> -1, out |-> <<>>, err |-> txt_timeout]
      [] OTHER               -> [code |-> -1, out |-> <<>>, err |-> raw.err]

\* faulty variant: code <= 0 instead of code == 0
test_allowed_sign(self, raw) ==
    LET r == run_command(raw)
    IN  IF r.code <= 0 THEN Passed(self, "")
        ELSE Failed(self, "expected: allowed, got: blocked")

test_allowed(self, raw) ==
    LET r == run_command(raw)
    IN  IF r.code = 0 THEN Passed(self, "")
        ELSE Failed(self, "expected: allowed, got: blocked")

\* faulty variant: the combined text is not lowercased
test_denied_cased(self, raw) ==
    LET r        == run_command(raw)
        combined == r.err \o r.out
    IN  IF r.code # 0 /\ (contains(combined, kw_denied) \/ contains(combined, kw_blocked))
        THEN Passed(self, "")
        ELSE IF r.code # 0 /\ (contains(combined, kw_not_found)
                               \/ contains(combined, kw_no_such_file))
        THEN Passed(self, "command not available")
        ELSE IF r.code # 0
        THEN Warned(self, "command failed, unclear if policy")
        ELSE Failed(self, "expected: denied, got: allowed")

test_denied(self, raw) ==
    LET r        == run_command(raw)
        combined == lower(r.err \o r.out)
    IN  IF r.code # 0 /\ (contains(combined, kw_denied) \/ contains(combined, kw_blocked))
        THEN Passed(self, "")
        ELSE IF r.code # 0 /\ (contains(combined, kw_not_found)
                               \/ contains(combined, kw_no_such_file))
        THEN Passed(self, "command not available")
        ELSE IF r.code # 0
        THEN Warned(self, "command failed, unclear if policy")
        ELSE Failed(self, "expected: denied, got: allowed")

test_file_readable(self, raw) == test_allowed(self, raw)

test_file_blocked(self, raw) ==
    LET r == run_command(raw)
    IN  IF r.code # 0 THEN Passed(self, "")
        ELSE Failed(self, "expected: blocked, got: allowed")

\* faulty variant: the except branch prints without counting
test_denied_direct_uncounted(self, raw) ==
    IF raw.tag # "exit" THEN [self |-> self, status |-> "Warn", note |-> "error"]
    ELSE LET combined == lower(raw.err \o raw.out)
         IN  IF raw.code # 0 /\ (contains(combined, kw_denied)
                                 \/ contains(combined, kw_blocked))
             THEN Passed(self, "")
             ELSE IF raw.code # 0
             THEN Warned(self, "command failed, unclear if policy")
             ELSE Failed(self, "expected: denied, got: allowed")

\* faulty variant: a non-zero exit without keyword counts as a failure
test_denied_direct_strict(self, raw) ==
    IF raw.tag # "exit" THEN Warned(self, "error")
    ELSE LET combined == lower(raw.err \o raw.out)
         IN  IF raw.code # 0 /\ (contains(combined, kw_denied)
                                 \/ contains(combined, kw_blocked))
             THEN Passed(self, "")
             ELSE Failed(self, "expected: denied, got: allowed")

test_denied_direct(self, raw) ==
    IF raw.tag # "exit" THEN Warned(self, "error")
    ELSE LET combined == lower(raw.err \o raw.out)
         IN  IF raw.code # 0 /\ (contains(combined, kw_denied)
                                 \/ contains(combined, kw_blocked))
             THEN Passed(self, "")
             ELSE IF raw.code # 0
             THEN Warned(self, "command failed, unclear if policy")
             ELSE Failed(self, "expected: denied, got: allowed")

\* The loop over result.stdout.splitlines(): the first line that starts with
\* the marker decides; <<"IndexError">> stands for line.split(None, 1)[1]
\* raising because the line has a single field.
parse_decision(out) ==
    LET lines == splitlines(out)
        hits  == {i \in DOMAIN lines : startswith(lines[i], marker)}
    IN  IF hits = {} THEN [raised |-> FALSE, decision |-> <<>>]
        ELSE LET line  == lines[CHOOSE i \in hits : \A j \in hits : i <= j]
                 parts == split_none_1(line)
             IN  IF Len(parts) < 2 THEN [raised |-> TRUE, decision |-> <<>>]
                 ELSE [raised |-> FALSE, decision |-> lower(strip(parts[2]))]

\* faulty variant: only TimeoutExpired is caught
run_policy_test_uncaught(self, raw, expected) ==
    IF raw.tag = "timeout" THEN Warned(self, "error")
    ELSE IF raw.tag # "exit" THEN [self |-> self, status |-> "Raise", note |-> "error"]
    ELSE LET p == parse_decision(raw.out)
         IN  IF p.raised THEN [self |-> self, status |-> "Raise", note |-> "error"]
             ELSE IF p.decision = expected THEN Passed(self, "")
             ELSE Failed(self, "mismatch")

run_policy_test(self, raw, expected) ==
    IF raw.tag # "exit" THEN Warned(self, "error")
    ELSE LET p == parse_decision(raw.out)
         IN  IF p.raised THEN Warned(self, "error")
             ELSE IF p.decision = expected THEN Passed(self, "")
             ELSE Failed(self, "mismatch")

\* --------------------------------------------------------- the catalog
Rep(n, x) == [i \in 1..n |-> x]

Probe(kind, expected) == [kind |-> kind, expected |-> expected]

Allow == Probe("run_policy_test", word_allow)

Deny == Probe("run_policy_test", word_deny)

\* the calls of run_tests, in source order
Catalog ==
       Rep(7, Probe("test_allowed", <<>>))
    \o Rep(19, Probe("test_denied", <<>>))
    \o Rep(6, Probe("test_denied_direct", <<>>))
    \o Rep(1, Probe("test_denied_direct", <<>>))
    \o Rep(2, Probe("test_denied_direct", <<>>))
    \o <<Probe("test_file_readable", <<>>), Probe("test_denied", <<>>)>>
    \o <<Probe("test_file_readable", <<>>), Probe("test_allowed", <<>>)>>
    \o <<Allow, Allow>>
    \o <<Allow, Deny, Allow, Deny, Allow, Deny>>
    \o <<Allow, Allow, Allow, Deny, Deny, Deny>>
    \o <<Allow, Deny>>
    \o <<Deny, Deny, Deny>>
    \o <<Allow, Allow, Allow>>
    \o <<Allow, Allow, Allow>>
    \o <<Deny, Deny, Deny, Deny>>
    \o <<Deny, Deny>>

\* one call of run_tests dispatched to its method
run_probe(self, probe, raw) ==
    CASE probe.kind = "test_allowed"       -> test_allowed(self, raw)
      [] probe.kind = "test_denied"        -> test_denied(self, raw)
      [] probe.kind = "test_file_readable" -> test_file_readable(self, raw)
      [] probe.kind = "test_file_blocked"  -> test_file_blocked(self, raw)
      [] probe.kind = "test_denied_direct" -> test_denied_direct(self, raw)
      [] OTHER                             -> run_policy_test(self, raw, probe.expected)

\* faulty variant: warnings make the run fail
run_tests_return_strict(self) ==
    IF self.failed > 0 THEN 1
    ELSE IF self.warnings > 0 THEN 1
    ELSE 0

\* the value run_tests returns after the summary
run_tests_return(self) ==
    IF self.failed > 0 THEN 1
    ELSE IF self.warnings > 0 THEN 0
    ELSE 0

\* faulty variant: the return code is not looked at
agentsh_available_unchecked(raw) == raw.tag = "exit"

\* main's availability check of `agentsh --version`
agentsh_available(raw) == raw.tag = "exit" /\ raw.code = 0

\* ------------------------------------------------- inputs of the model
ExitCodes == {0, 1, 127, -9}

OutTexts == {<<>>, out_hello, out_ied, out_den, out_blocked}

ErrTexts == {<<>>, err_denied, err_not_found, err_no_such_file, err_disk_full,
             err_den, err_ied, err_denied_missing}

DecisionTexts == {<<>>, dec_deny, dec_allow_upper, dec_two, dec_bare, dec_bare_ws,
                  dec_nospace, dec_glued, dec_lower_marker, dec_indented,
                  dec_none, dec_extra}

ExpectedWords == {word_allow, word_deny}

Exceptions == {TimeoutExpired, FileNotFoundError, OtherError(exc_eacces), OtherError(exc_enomem)}

ShellOutcomes ==
    {Completed(c, o, e) : c \in ExitCodes, o \in OutTexts, e \in ErrTexts} \cup Exceptions

QueryOutcomes ==
    {Completed(c, o, <<>>) : c \in {0, 1}, o \in DecisionTexts} \cup Exceptions

LivenessOutcomes ==
    {Completed(0, out_hello, <<>>), Completed(1, <<>>, err_disk_full),
     Completed(127, <<>>, err_not_found)} \cup Exceptions

\* what one probe of a whole run may observe
RunOutcomes ==
    {Completed(0, dec_two, <<>>), Completed(0, dec_deny, <<>>), Completed(0, dec_bare, <<>>),
     Completed(1, <<>>, err_denied), Completed(127, <<>>, err_not_found),
     Completed(1, <<>>, err_disk_full), TimeoutExpired, OtherError(exc_eacces)}

\* a sandbox that answers each kind of invocation the same way every time
SandboxKeys == {"version", "test_allowed", "test_denied", "test_file_readable",
                "test_denied_direct", "allow", "deny"}

SandboxAnswers ==
    {Completed(0, dec_two, <<>>), Completed(1, dec_deny, err_denied), TimeoutExpired}

SandboxKey(probe) ==
    IF probe.kind # "run_policy_test" THEN probe.kind
    ELSE IF probe.expected = word_allow THEN "allow" ELSE "deny"

\* number of method calls explored on one tester used as a library
MaxCalls == 2

\* ------------------------------------------------------- state machine
NoTester == [passed |-> 0, failed |-> 0, warnings |-> 0]

NoCall == [method |-> "none", expected |-> <<>>, raw |-> TimeoutExpired,
           status |-> "none", note |-> "", before |-> NoTester]

NoSandbox == [k \in SandboxKeys |-> TimeoutExpired]

Init ==
    /\ pc = "liveness"
    /\ tester = NoTester
    /\ executed = <<>>
    /\ exitCode = <<>>
    /\ summary = <<>>
    /\ live = <<>>
    /\ call = NoCall
    /\ sandbox = NoSandbox
    /\ run = 1
    /\ first = <<>>

\* main(): the availability check, then PolicyTester()
MainWith(raw) ==
    /\ pc = "liveness"
    /\ live' = <<raw>>
    /\ IF agentsh_available(raw)
       THEN /\ pc' = "running"
            /\ tester' = PolicyTester_init(tester)
            /\ UNCHANGED exitCode
       ELSE /\ pc' = "done"
            /\ exitCode' = <<1>>
            /\ UNCHANGED tester
    /\ UNCHANGED <<executed, summary, call, sandbox, run, first>>

\* the next call of run_tests; an exception that leaves the method ends the
\* process with a traceback and exit code 1
RunProbeWith(raw) ==
    /\ pc = "running"
    /\ Len(executed) < Len(Catalog)
    /\ LET i == Len(executed) + 1
           r == run_probe(tester, Catalog[i], raw)
       IN  IF r.status = "Raise"
           THEN /\ pc' = "done"
                /\ exitCode' = <<1>>
                /\ UNCHANGED <<tester, executed>>
           ELSE /\ tester' = r.self
                /\ executed' = Append(executed, i)
                /\ UNCHANGED <<pc, exitCode>>
    /\ UNCHANGED <<summary, live, call, sandbox, run, first>>

\* the summary of run_tests and sys.exit of its return value
Summarise ==
    /\ pc = "running"
    /\ Len(executed) = Len(Catalog)
    /\ summary' = <<tester>>
    /\ exitCode' = <<run_tests_return(tester)>>
    /\ pc' = "done"
    /\ UNCHANGED <<tester, executed, live, call, sandbox, run, first>>

Main == \E raw \in LivenessOutcomes : MainWith(raw)

RunProbe == \E raw \in RunOutcomes : RunProbeWith(raw)

Next == Main \/ RunProbe \/ Summarise

Spec == Init /\ [][Next]_vars

\* Execution is sequential and every subprocess.run has a timeout, so the
\* harness always takes its next step.
FairSpec == Spec /\ WF_vars(Next)

\* ---------------------------------- the methods of one tester, one by one
ClassifyInit ==
    /\ pc = "library"
    /\ tester = PolicyTester_init(NoTester)
    /\ executed = <<>>
    /\ exitCode = <<>>
    /\ summary = <<>>
    /\ live = <<>>
    /\ call = NoCall
    /\ sandbox = NoSandbox
    /\ run = 1
    /\ first = <<>>

Apply(method, expected, raw, r) ==
    /\ pc = "library"
    /\ tester.passed + tester.failed + tester.warnings < MaxCalls
    /\ r.status # "Raise"
    /\ tester' = r.self
    /\ call' = [method |-> method, expected |-> expected, raw |-> raw,
                status |-> r.status, note |-> r.note, before |-> tester]
    /\ UNCHANGED <<pc, executed, exitCode, summary, live, sandbox, run, first>>

CallTestAllowed ==
    \E raw \in ShellOutcomes : Apply("test_allowed", <<>>, raw, test_allowed(tester, raw))

CallTestDenied ==
    \E raw \in ShellOutcomes : Apply("test_denied", <<>>, raw, test_denied(tester, raw))

CallTestFileReadable ==
    \E raw \in ShellOutcomes :
        Apply("test_file_readable", <<>>, raw, test_file_readable(tester, raw))

CallTestFileBlocked ==
    \E raw \in ShellOutcomes :
        Apply("test_file_blocked", <<>>, raw, test_file_blocked(tester, raw))

CallTestDeniedDirect ==
    \E raw \in ShellOutcomes :
        Apply("test_denied_direct", <<>>, raw, test_denied_direct(tester, raw))

CallRunPolicyTest ==
    \E raw \in QueryOutcomes, expected \in ExpectedWords :
        Apply("run_policy_test", expected, raw, run_policy_test(tester, raw, expected))

ClassifyNext ==
    \/ CallTestAllowed
    \/ CallTestDenied
    \/ CallTestFileReadable
    \/ CallTestFileBlocked
    \/ CallTestDeniedDirect
    \/ CallRunPolicyTest

ClassifySpec == ClassifyInit /\ [][ClassifyNext]_vars

\* ------------------------------- two runs against one unchanged sandbox
TwiceInit ==
    /\ pc = "liveness"
    /\ tester = NoTester
    /\ executed = <<>>
    /\ exitCode = <<>>
    /\ summary = <<>>
    /\ live = <<>>
    /\ call = NoCall
    /\ sandbox \in [SandboxKeys -> SandboxAnswers]
    /\ run = 1
    /\ first = <<>>

SandboxMain == MainWith(sandbox["version"])

SandboxProbe ==
    /\ Len(executed) < Len(Catalog)
    /\ RunProbeWith(sandbox[SandboxKey(Catalog[Len(executed) + 1])])

\* the harness is started again; what the first run left is remembered
Rerun ==
    /\ pc = "done"
    /\ run = 1
    /\ run' = 2
    /\ first' = <<[tester |-> tester, exitCode |-> exitCode]>>
    /\ pc' = "liveness"
    /\ executed' = <<>>
    /\ exitCode' = <<>>
    /\ summary' = <<>>
    /\ live' = <<>>
    /\ UNCHANGED <<tester, call, sandbox>>

TwiceNext == SandboxMain \/ SandboxProbe \/ Summarise \/ Rerun

TwiceSpec == TwiceInit /\ [][TwiceNext]_vars

\* ============================================================ properties
Total(t) == t.passed + t.failed + t.warnings

\* the counter a verdict is tallied in
Counted(before, status) ==
    CASE status = "Pass" -> [before EXCEPT !.passed = @ + 1]
      [] status = "Fail" -> [before EXCEPT !.failed = @ + 1]
      [] OTHER           -> [before EXCEPT !.warnings = @ + 1]

HarnessFailure(raw) == raw.tag # "exit"

\* what the harness-failure text of an outcome is
FailureText(raw) == IF raw.tag = "timeout" THEN txt_timeout ELSE raw.err

Synthetic(raw) == [code |-> -1, out |-> <<>>, err |-> FailureText(raw)]

\* keyword search over the captured result, case-insensitively
Text(r) == lower(r.err \o r.out)

SaysDenied(r) == contains(Text(r), kw_denied) \/ contains(Text(r), kw_blocked)

SaysMissing(r) == contains(Text(r), kw_not_found) \/ contains(Text(r), kw_no_such_file)

ShellMethods == {"test_allowed", "test_denied", "test_file_readable", "test_file_blocked"}

\* C1: a shell-wrapped Denied probe is Pass when the exit code is non-zero
\* and the text says denied or blocked, Pass annotated "command not
\* available" when it is non-zero and the text only says not found or no such
\* file, Warn when it is non-zero with none of the keywords, and Fail when the
\* exit code is 0.
C1_DeniedRule ==
    call.method = "test_denied" =>
        LET r == run_command(call.raw)
        IN  /\ (r.code # 0 /\ SaysDenied(r)) => call.status = "Pass"
            /\ (r.code # 0 /\ ~SaysDenied(r) /\ SaysMissing(r)) =>
                   (call.status = "Pass" /\ call.note = "command not available")
            /\ (r.code # 0 /\ ~SaysDenied(r) /\ ~SaysMissing(r)) => call.status = "Warn"
            /\ r.code = 0 => call.status = "Fail"
            /\ tester = Counted(call.before, call.status)

C1_Witness ==
    /\ call.method = "test_denied"
    /\ call.raw.tag = "exit"
    /\ call.raw.code = 127
    /\ call.raw.err = err_no_such_file
    /\ call.raw.out = out_hello
    /\ call.status = "Pass"
    /\ call.note = "command not available"

\* the decision as the claim C2 reads it: the remainder of the first line
\* starting with the marker, trimmed and lowercased; empty without a marker
ObservedDecision(out) ==
    LET lines == splitlines(out)
        hits  == {i \in DOMAIN lines : startswith(lines[i], marker)}
    IN  IF hits = {} THEN <<>>
        ELSE LET line == lines[CHOOSE i \in hits : \A j \in hits : i <= j]
             IN  lower(strip(SubSeq(line, Len(marker) + 1, Len(line))))

\* C2: whatever the structured query prints, a StructuredDecision probe is
\* Pass iff the observed decision equals the expected word and Fail
\* otherwise; it is never Warn.
C2_StructuredPassOrFail ==
    (call.method = "run_policy_test" /\ call.raw.tag = "exit") =>
        call.status = (IF ObservedDecision(call.raw.out) = call.expected
                       THEN "Pass" ELSE "Fail")

\* the case in which the two Denied classifiers part
OnlyMissing(raw) ==
    raw.code # 0 /\ SaysMissing(raw) /\ ~SaysDenied(raw)

\* C3 (amended): on a captured result test_denied_direct and test_denied
\* give the same verdict and increment the same counter, except when the exit
\* code is non-zero and the text says not found or no such file but neither
\* denied nor blocked: there test_denied passes and test_denied_direct warns.
C3_DirectSameUnlessMissing ==
    /\ (call.method = "test_denied_direct" /\ call.raw.tag = "exit") =>
           LET other == test_denied(call.before, call.raw)
           IN  IF OnlyMissing(call.raw)
               THEN call.status = "Warn" /\ other.status = "Pass"
               ELSE call.status = other.status /\ tester = other.self
    /\ (call.method = "test_denied" /\ call.raw.tag = "exit") =>
           LET other == test_denied_direct(call.before, call.raw)
           IN  IF OnlyMissing(call.raw)
               THEN call.status = "Pass" /\ other.status = "Warn"
               ELSE call.status = other.status /\ tester = other.self

C3_Witness ==
    /\ call.method = "test_denied_direct"
    /\ call.raw.tag = "exit"
    /\ call.raw.code = 1
    /\ call.raw.err = err_den
    /\ call.raw.out = out_ied
    /\ call.status = "Pass"

\* C3 as stated: the two classifiers agree on every captured result.
C3_DirectSameAsShell ==
    (call.method = "test_denied_direct" /\ call.raw.tag = "exit") =>
        LET other == test_denied(call.before, call.raw)
        IN  call.status = other.status /\ tester = other.self

\* C4: an Allowed or FileReadable probe is Pass iff the captured exit code
\* is 0 and Fail otherwise, the synthetic -1 of a harness failure included,
\* and it never increments the warnings counter.
C4_AllowedRule ==
    call.method \in {"test_allowed", "test_file_readable"} =>
        LET code == IF HarnessFailure(call.raw) THEN -1 ELSE call.raw.code
        IN  /\ call.status = (IF code = 0 THEN "Pass" ELSE "Fail")
            /\ tester.warnings = call.before.warnings
            /\ tester = Counted(call.before, call.status)

C4_Witness ==
    /\ call.method = "test_file_readable"
    /\ call.raw.tag = "timeout"
    /\ call.status = "Fail"
    /\ tester.failed = call.before.failed + 1

ExitFor(t) == IF t.failed > 0 THEN 1 ELSE 0

\* C5 as stated: every terminated execution exits with 1 iff failed > 0 and
\* with 0 otherwise.
C5_ExitIffFailed ==
    pc = "done" => exitCode = <<ExitFor(tester)>>

\* C5 (amended): an execution that passed the liveness check and terminated
\* exits with 1 iff failed > 0 and with 0 otherwise, warnings or not; an
\* execution the liveness check aborted exits with 1 although failed is 0.
C5_ExitIffFailedAfterLiveness ==
    pc = "done" =>
        IF live # <<>> /\ live[1].tag = "exit" /\ live[1].code = 0
        THEN exitCode = <<ExitFor(tester)>>
        ELSE exitCode = <<1>> /\ tester.failed = 0

C5_Witness ==
    /\ pc = "done"
    /\ summary # <<>>
    /\ tester.warnings > 0
    /\ tester.failed = 0
    /\ exitCode = <<0>>

\* C6: passed + failed + warnings equals the number of probes executed so
\* far; each executed probe increments exactly one counter by one and no
\* counter ever decreases.
C6_TallyCountsProbes ==
    /\ [](Total(tester) = Len(executed))
    /\ [][/\ tester'.passed >= tester.passed
          /\ tester'.failed >= tester.failed
          /\ tester'.warnings >= tester.warnings
          /\ Total(tester') = Total(tester) + (Len(executed') - Len(executed))
          /\ Len(executed') - Len(executed) \in {0, 1}]_vars

C6_Witness ==
    /\ pc = "done"
    /\ Len(executed) = Len(Catalog)
    /\ tester.passed > 0
    /\ tester.failed > 0
    /\ tester.warnings > 0

\* C7: when the liveness check exits non-zero, times out or cannot be
\* spawned, the run is over at once: no probe executed, no counter changed,
\* no summary, and a non-zero exit code.
C7_LivenessAborts ==
    (live # <<>> /\ (live[1].tag # "exit" \/ live[1].code # 0)) =>
        /\ pc = "done"
        /\ executed = <<>>
        /\ tester = NoTester
        /\ summary = <<>>
        /\ Len(exitCode) = 1
        /\ exitCode[1] # 0

C7_Witness ==
    /\ live = <<Completed(1, <<>>, err_disk_full)>>
    /\ pc = "done"
    /\ exitCode = <<1>>

\* C8: once the liveness check has succeeded the probes run one by one in
\* catalog order, each exactly once, whatever earlier probes observed, and
\* the run reaches the summary and terminates with every probe executed.
C8_EveryProbeRuns ==
    /\ [](executed = [i \in 1..Len(executed) |-> i])
    /\ []((pc = "done" /\ live # <<>> /\ live[1].tag = "exit" /\ live[1].code = 0) =>
              (summary # <<>> /\ Len(executed) = Len(Catalog)))
    /\ (pc = "running") ~> (pc = "done" /\ summary # <<>> /\ Len(executed) = Len(Catalog))

C8_Witness ==
    /\ pc = "done"
    /\ summary # <<>>
    /\ Len(executed) = Len(Catalog)
    /\ tester.passed = 0

RuleVerdict(method, before, result, expected) ==
    LET raw == Completed(result.code, result.out, result.err)
    IN  CASE method = "test_allowed"       -> test_allowed(before, raw)
          [] method = "test_denied"        -> test_denied(before, raw)
          [] method = "test_file_readable" -> test_file_readable(before, raw)
          [] method = "test_file_blocked"  -> test_file_blocked(before, raw)
          [] method = "test_denied_direct" -> test_denied_direct(before, raw)
          [] OTHER                         -> run_policy_test(before, raw, expected)

====
